---- MODULE Spec2Model ----
(***************************************************************************)
(* Model of src/localisation/korean/translate_metro.py: main, process_file *)
(* and translate_batch with its recursive bisection.  A line is a sequence *)
(* of Unicode code points, so the string operations (strip, lstrip, split, *)
(* re.findall, re.sub, replace) are computed the way Python computes them. *)
(* The inference endpoint is the environment: each request is answered by  *)
(* a timeout, an exception or a response text.                             *)
(***************************************************************************)
EXTENDS Bags, FiniteSets, Integers, Sequences, TLC

\* ---------------------------------------------------------------- bounds
\* lines of any kind in the files main discovers
MaxLines == 2
\* short translatable lines in a row: the largest batch
MaxBatch == 4
\* number of files main discovers
MaxFiles == 2

\* ------------------------------------------------------ program constants
max_batch_chars == 300
max_single_line == 2000
MinResponseLen == 10

\* code points the source names
NL == 10
SP == 32
QUOTE == 34
HASH == 35
COLON == 58
BACKTICK == 96
POUND == 163
HangulFirst == 44032
HangulLast == 55203

\* "l_english:" and "l_korean:"
SourceMarker == <<108, 95, 101, 110, 103, 108, 105, 115, 104, 58>>
TargetMarker == <<108, 95, 107, 111, 114, 101, 97, 110, 58>>

\* ------------------------------------------------------- string helpers
\* str.isspace of the characters str.strip() removes
IsSpace(c) == (9 <= c /\ c <= 13) \/ (28 <= c /\ c <= 32) \/ c = 133 \/ c = 160

\* [a-zA-Z]
IsAlpha(c) == (65 <= c /\ c <= 90) \/ (97 <= c /\ c <= 122)

\* [a-zA-Z0-9_]
IsIdent(c) == IsAlpha(c) \/ (48 <= c /\ c <= 57) \/ c = 95

Min(S) == CHOOSE x \in S : \A y \in S : x <= y

\* index of the first character lstrip() keeps, Len(s)+1 when there is none
LStripIdx(s) ==
    CHOOSE j \in 1..(Len(s) + 1) :
        /\ j = Len(s) + 1 \/ ~IsSpace(s[j])
        /\ \A k \in 1..(j - 1) : IsSpace(s[k])

\* index of the last character rstrip() keeps, 0 when there is none
RStripIdx(s) ==
    LET n == CHOOSE d \in 0..Len(s) :
                 /\ d = Len(s) \/ ~IsSpace(s[Len(s) - d])
                 /\ \A k \in 0..(d - 1) : IsSpace(s[Len(s) - k])
    IN  Len(s) - n

lstrip(s) == SubSeq(s, LStripIdx(s), Len(s))

strip(s) == SubSeq(s, LStripIdx(s), RStripIdx(s))

startswith(s, p) == Len(s) >= Len(p) /\ SubSeq(s, 1, Len(p)) = p

Contains(s, c) == \E i \in 1..Len(s) : s[i] = c

\* original_line[:len(original_line) - len(original_line.lstrip())]
Indent(s) == SubSeq(s, 1, Len(s) - Len(lstrip(s)))

\* positions where p occurs in s
Occurs(s, p) == {i \in 1..(Len(s) - Len(p) + 1) : SubSeq(s, i, i + Len(p) - 1) = p}

\* str.replace(old, new): leftmost non-overlapping occurrences
RECURSIVE Replace(_, _, _)
Replace(s, old, new) ==
    IF Occurs(s, old) = {} THEN s
    ELSE LET i == Min(Occurs(s, old))
         IN  SubSeq(s, 1, i - 1) \o new
                \o Replace(SubSeq(s, i + Len(old), Len(s)), old, new)

\* "".join(batch)
RECURSIVE Join(_)
Join(ls) == IF ls = <<>> THEN <<>> ELSE Head(ls) \o Join(Tail(ls))

\* sum(len(l) for l in batch)
RECURSIVE SumLen(_)
SumLen(ls) == IF ls = <<>> THEN 0 ELSE Len(Head(ls)) + SumLen(Tail(ls))

\* str.split('\n')
RECURSIVE Split(_)
Split(s) ==
    IF ~Contains(s, NL) THEN <<s>>
    ELSE LET p == Min({i \in 1..Len(s) : s[i] = NL})
         IN  <<SubSeq(s, 1, p - 1)>> \o Split(SubSeq(s, p + 1, Len(s)))

\* re.findall(r'£[a-zA-Z0-9_]+', s), as the bag that sorted() compares
TagStarts(s) == {i \in 1..(Len(s) - 1) : s[i] = POUND /\ IsIdent(s[i + 1])}

TagEnd(s, i) ==
    CHOOSE j \in (i + 1)..(Len(s) + 1) :
        /\ j = Len(s) + 1 \/ ~IsIdent(s[j])
        /\ \A k \in (i + 1)..(j - 1) : IsIdent(s[k])

TagAt(s, i) == SubSeq(s, i, TagEnd(s, i) - 1)

findall_tags(s) ==
    [t \in {TagAt(s, i) : i \in TagStarts(s)} |->
        Cardinality({i \in TagStarts(s) : TagAt(s, i) = t})]

\* re.sub(r'```[a-zA-Z]*\n?', '', s)
Fence == <<BACKTICK, BACKTICK, BACKTICK>>

RECURSIVE SubFences(_)
SubFences(s) ==
    IF Occurs(s, Fence) = {} THEN s
    ELSE LET i == Min(Occurs(s, Fence))
             a == CHOOSE j \in (i + 3)..(Len(s) + 1) :
                      /\ j = Len(s) + 1 \/ ~IsAlpha(s[j])
                      /\ \A k \in (i + 3)..(j - 1) : IsAlpha(s[k])
             e == IF a <= Len(s) /\ s[a] = NL THEN a + 1 ELSE a
         IN  SubSeq(s, 1, i - 1) \o SubFences(SubSeq(s, e, Len(s)))

\* ------------------------------------------------------------- the code
\* faulty variant: the Hangul test never matches
has_korean_Never(text) == FALSE

\* has_korean(text): re.search(r'[가-힣]', text)
has_korean(text) == \E k \in 1..Len(text) : HangulFirst <= text[k] /\ text[k] <= HangulLast

\* line.strip().startswith("l_english:")
IsMarkerLine(line) == startswith(strip(line), SourceMarker)

\* faulty variant: the marker is left as it is
MarkerRename_Keep(line) == line

\* line.replace("l_english:", "l_korean:")
MarkerRename(line) == Replace(line, SourceMarker, TargetMarker)

\* faulty variant: the comment test is left out
Translatable_CommentsToo(line) ==
    /\ Contains(line, QUOTE)
    /\ Contains(line, COLON)
    /\ ~has_korean(line)

\* '"' in line and ':' in line and not line.strip().startswith('#') and not has_korean(line)
Translatable(line) ==
    /\ Contains(line, QUOTE)
    /\ Contains(line, COLON)
    /\ ~startswith(strip(line), <<HASH>>)
    /\ ~has_korean(line)

\* faulty variant: the single-line ceiling is not applied
OverCeiling_Never(line) == FALSE

\* len(line) > max_single_line
OverCeiling(line) == Len(line) > max_single_line

\* faulty variant: the length of the incoming line is left out of the sum
BatchFull_IgnoresLine(b, line) == b # <<>> /\ SumLen(b) > max_batch_chars

\* batch and (current_batch_length + len(line) > max_batch_chars)
BatchFull(b, line) == b # <<>> /\ SumLen(b) + Len(line) > max_batch_chars

\* faulty variant: every answer passes the tag check
check_special_tags_AlwaysTrue(original, translated) == TRUE

\* check_special_tags(original, translated)
check_special_tags(original, translated) ==
    LET orig_tags == findall_tags(original)
        trans_tags == findall_tags(translated)
    IN  IF DOMAIN orig_tags = {} THEN TRUE
        ELSE orig_tags = trans_tags

\* faulty variant: nothing is written to the log
log_error_Skip(lg, original_batch, received_output, file_name) == lg

\* log_error(original_batch, received_output, file_name): one appended record
log_error(lg, original_batch, received_output, file_name) ==
    Append(lg, [file |-> file_name, batch |-> original_batch, raw |-> received_output])

\* faulty variant: no answer is too short
TooShort_Never(raw_output) == FALSE

\* not raw_output or len(raw_output) < 10
TooShort(raw_output) == raw_output = <<>> \/ Len(raw_output) < MinResponseLen

\* re.sub(r'```[a-zA-Z]*\n?', '', raw_output).replace('```', '').strip()
CleanOutput(raw_output) == strip(Replace(SubFences(raw_output), Fence, <<>>))

NonBlank(line) == strip(line) # <<>>

\* [line for line in clean_output.split('\n') if line.strip()]
TranslatedLines(clean_output) == SelectSeq(Split(clean_output), NonBlank)

\* faulty variant: only an answer with too few lines is a mismatch
CountMismatch_Lt(translated_lines, original_count) == Len(translated_lines) < original_count

\* len(translated_lines) != original_count
CountMismatch(translated_lines, original_count) == Len(translated_lines) # original_count

\* faulty variant: the answer's own indentation is kept
Reindent_Keep(original_line, translated_line) == translated_line \o <<NL>>

\* f"{indent}{translated_line.lstrip()}\n"
Reindent(original_line, translated_line) ==
    Indent(original_line) \o lstrip(translated_line) \o <<NL>>

\* the loop that builds result_lines
ResultLines(b, translated_lines) ==
    [k \in 1..Len(translated_lines) |->
        IF k <= Len(b) THEN Reindent(b[k], translated_lines[k])
        ELSE IF translated_lines[k] # <<>> /\ translated_lines[k][Len(translated_lines[k])] = NL
             THEN translated_lines[k]
             ELSE translated_lines[k] \o <<NL>>]

\* faulty variant: only the timeout is caught
Catches_TimeoutOnly(kind) == kind = "timeout"

\* the except clauses: requests.exceptions.Timeout, then Exception
Catches(kind) == kind \in {"timeout", "exception"}

\* faulty variant: a failed request is treated like a failed validation
OnFailure_Bisect(b) ==
    [act |-> IF Len(b) > 1 THEN "split" ELSE "return",
     value |-> b, logged |-> FALSE, raw |-> <<>>]

\* the bodies of the except clauses: return batch
OnFailure(b) == [act |-> "return", value |-> b, logged |-> FALSE, raw |-> <<>>]

\* (Each intermediate value of translate_batch is computed once and bound:
\* CHOOSE r \in {F(x) : x \in {e}} : TRUE is F(e).)

\* if original_count > 1: bisect, else: return batch
Retry(b) == IF Len(b) > 1 THEN "split" ELSE "return"

\* faulty variant: a single line keeps whatever was answered for it
HandleLines_KeepsAnswer(b, raw_output, translated_lines) ==
    IF CountMismatch(translated_lines, Len(b)) /\ Len(b) > 1
    THEN [act |-> "split", value |-> b, logged |-> TRUE, raw |-> raw_output]
    ELSE [act |-> "return", value |-> ResultLines(b, translated_lines),
          logged |-> CountMismatch(translated_lines, Len(b)), raw |-> raw_output]

\* the line-count check and the result
HandleLines(b, raw_output, translated_lines) ==
    IF CountMismatch(translated_lines, Len(b))
    THEN [act |-> Retry(b), value |-> b, logged |-> TRUE, raw |-> raw_output]
    ELSE [act |-> "return", value |-> ResultLines(b, translated_lines),
          logged |-> FALSE, raw |-> raw_output]

\* the tag check
HandleClean(b, raw_output, clean_output) ==
    IF ~check_special_tags(Join(b), clean_output)
    THEN [act |-> Retry(b), value |-> b, logged |-> FALSE, raw |-> raw_output]
    ELSE CHOOSE r \in {HandleLines(b, raw_output, translated_lines) :
                          translated_lines \in {TranslatedLines(clean_output)}} : TRUE

\* faulty variant: the empty-answer check is left out
HandleRaw_NoLengthCheck(b, raw_output) ==
    CHOOSE r \in {HandleClean(b, raw_output, clean_output) :
                     clean_output \in {CleanOutput(raw_output)}} : TRUE

\* the empty-answer check
HandleRaw(b, raw_output) ==
    IF TooShort(raw_output)
    THEN [act |-> "return", value |-> b, logged |-> FALSE, raw |-> raw_output]
    ELSE CHOOSE r \in {HandleClean(b, raw_output, clean_output) :
                          clean_output \in {CleanOutput(raw_output)}} : TRUE

\* What translate_batch does with the endpoint's answer to one request:
\* return a value, bisect, or let an exception escape; and whether it logs.
Handle(b, o) ==
    IF o.kind # "response"
    THEN IF Catches(o.kind)
         THEN OnFailure(b)
         ELSE [act |-> "raise", value |-> <<>>, logged |-> FALSE, raw |-> <<>>]
    ELSE CHOOSE r \in {HandleRaw(b, raw_output) : raw_output \in {strip(o.content)}} : TRUE

\* the answer o to a request for b goes through the three checks of
\* translate_batch (lines 129, 137, 149) and its lines are returned
Passes(b, o) ==
    /\ o.kind = "response"
    /\ Len(strip(o.content)) >= MinResponseLen
    /\ LET clean_output == strip(Replace(SubFences(strip(o.content)), Fence, <<>>))
       IN  /\ (DOMAIN findall_tags(Join(b)) = {}
                  \/ findall_tags(Join(b)) = findall_tags(clean_output))
           /\ Len(SelectSeq(Split(clean_output), NonBlank)) = Len(b)

\* faulty variant: nothing in the first half
Mid_Zero(b) == 0

\* faulty variant: one line is split off
Mid_One(b) == 1

\* faulty variant: the larger half first
Mid_Ceil(b) == (Len(b) + 1) \div 2

\* mid = original_count // 2
Mid(b) == Len(b) \div 2

Frame(b, ix) == [batch |-> b, idx |-> ix, phase |-> "post", left |-> <<>>]

\* A call of translate_batch returned val to the frames st below it:
\* a caller waiting for its first half calls the second half, a caller
\* waiting for its second half returns the concatenation.
RECURSIVE Unwind(_, _)
Unwind(st, val) ==
    IF st = <<>> THEN [stack |-> <<>>, ret |-> val, returned |-> TRUE]
    ELSE LET p == st[Len(st)]
             below == SubSeq(st, 1, Len(st) - 1)
             m == Mid(p.batch)
         IN  IF p.phase = "first"
             THEN [stack |-> Append(below, [p EXCEPT !.phase = "second", !.left = val])
                             \o <<Frame(SubSeq(p.batch, m + 1, Len(p.batch)),
                                        SubSeq(p.idx, m + 1, Len(p.idx)))>>,
                   ret |-> <<>>, returned |-> FALSE]
             ELSE Unwind(below, p.left \o val)

\* ------------------------------------------------------ the environment
Rep(c, n) == [k \in 1..n |-> c]

\* ` l_english: "a"`  a source-locale-marker line
LineMarker == <<SP>> \o SourceMarker \o <<SP, QUOTE, 97, QUOTE, NL>>

\* `l_english: "가"`  a marker line that carries Hangul
LineMarkerHangul == SourceMarker \o <<SP, QUOTE, HangulFirst, QUOTE, NL>>

\* `#k:"a"`  a comment
LineComment == <<HASH, 107, COLON, QUOTE, 97, QUOTE, NL>>

\* `k:"가"`  already translated
LineHangul == <<107, COLON, QUOTE, HangulFirst, QUOTE, NL>>

\* ` k:0 "a £x"`  translatable, indented, one icon tag
LineShort == <<SP, 107, COLON, 48, SP, QUOTE, 97, SP, POUND, 120, QUOTE, NL>>

\* `k:0 "aaa...a"` of n characters, translatable, no icon tag
LongLine(n) == <<107, COLON, 48, SP, QUOTE>> \o Rep(97, n - 7) \o <<QUOTE, NL>>

\* one character over the batch threshold
LineWide == LongLine(max_batch_chars + 1)

\* one character over the single-line ceiling
LineOver == LongLine(max_single_line + 1)

\* `k: a`  a colon and no quote
LineBare == <<107, COLON, SP, 97, NL>>

\* `l_english: "l_english:"`  the marker, and the same text once more in the value
LineMarkerTwice == SourceMarker \o <<SP, QUOTE>> \o SourceMarker \o <<QUOTE, NL>>

LineSet ==
    {LineMarker, LineMarkerHangul, LineComment, LineHangul, LineShort, LineWide, LineOver}

\* The discovered files.  A text is at most MaxLines lines of any kind, or a
\* run of at most MaxBatch short translatable lines (one batch); main finds
\* it as one file, or a text of mixed lines cut into at most MaxFiles
\* non-empty files; or main finds no file at all.
Texts == UNION {[1..n -> LineSet] : n \in 0..MaxLines}

Runs == {[k \in 1..n |-> LineShort] : n \in 1..MaxBatch}

\* the two rarer kinds of line, alone, after and before a short translatable line
RareTexts ==
    UNION {{<<l>>, <<LineShort, l>>, <<l, LineShort>>} : l \in {LineBare, LineMarkerTwice}}

Cuts(n, k) ==
    {c \in [0..k -> 0..n] :
        /\ c[0] = 0
        /\ c[k] = n
        /\ \A j \in 1..k : c[j - 1] < c[j]}

CutInto(t, k) == {[j \in 1..k |-> SubSeq(t, c[j - 1] + 1, c[j])] : c \in Cuts(Len(t), k)}

FileLists ==
    {<<>>}
    \cup {<<t>> : t \in Texts \cup Runs \cup RareTexts}
    \cup UNION {UNION {CutInto(t, k) : t \in Texts} : k \in 2..MaxFiles}

\* the model's answer to one line: Latin letters of the text become Hangul
Translate(line) == [k \in 1..Len(line) |-> IF line[k] = 97 THEN HangulFirst ELSE line[k]]

\* the same with the icon markers translated too
TranslateAll(line) ==
    [k \in 1..Len(line) |-> IF line[k] = 97 \/ line[k] = POUND THEN HangulFirst ELSE line[k]]

RECURSIVE JoinGood(_, _)
JoinGood(b, first) ==
    IF b = <<>> THEN <<>>
    ELSE <<SP, SP>> \o lstrip(Translate(Head(b)))
            \o (IF first THEN <<NL>> ELSE <<>>) \o JoinGood(Tail(b), FALSE)

\* a faithful answer: fenced, indented by two, a blank line after the first line
RespGood(b) == Fence \o <<121, 97, 109, 108, NL>> \o JoinGood(b, TRUE) \o Fence

RespPlain(b) == Join([k \in 1..Len(b) |-> Translate(b[k])])

\* the icon markers were translated away
RespTagDropped(b) == Join([k \in 1..Len(b) |-> TranslateAll(b[k])])

\* an icon marker the input does not have
RespTagAdded(b) ==
    SubSeq(RespPlain(b), 1, Len(RespPlain(b)) - 1) \o <<SP, POUND, 121, NL>>

\* one line too many
RespExtra(b) == RespPlain(b) \o <<HangulFirst, NL>>

\* "ok"
RespShort == <<111, 107>>

\* what the endpoint may do with a request
OutcomeKinds == {"timeout", "exception", "good", "dropped", "added", "extra", "short"}

Outcome(b, k) ==
    IF k \in {"timeout", "exception"} THEN [kind |-> k, content |-> <<>>]
    ELSE [kind |-> "response",
          content |-> CASE k = "good" -> RespGood(b)
                        [] k = "dropped" -> RespTagDropped(b)
                        [] k = "added" -> RespTagAdded(b)
                        [] k = "extra" -> RespExtra(b)
                        [] k = "short" -> RespShort]

\* ------------------------------------------------------------- the state
\* disk             the discovered files and their present content
\* f                main's position in the list of files
\* pc, site         where the script is; the call site of translate_batch
\* lines, i         process_file's lines and the position of its loop
\* translated_full  the output under construction; origin[j] is the input
\*                  line its j-th line stands for
\* batch, batchIdx  the pending batch and the input positions of its lines
\* stack            the calls of translate_batch in progress, innermost last
\* ret              what the outermost call returned
\* last             the latest request of the call of translate_batch in
\*                  progress and the endpoint's answer to it
\* failed           input positions of this file whose request failed in transport
\* sent             input positions of this file that were in a request
\* done             input positions of this file whose call of translate_batch
\*                  has returned
\* accepted         input positions of this file for which an answer passed the
\*                  length, tag and line-count checks
\* nreq             requests sent by the call of translate_batch in progress
\* log              translation_errors.log
NoRequest == [idx |-> <<>>, batch |-> <<>>, outcome |-> [kind |-> "none", content |-> <<>>]]

VARIABLES disk, f, pc, site, lines, i, translated_full, origin,
          batch, batchIdx, stack, ret, last, failed, sent, done, accepted, nreq, log

vars == <<disk, f, pc, site, lines, i, translated_full, origin,
          batch, batchIdx, stack, ret, last, failed, sent, done, accepted, nreq, log>>

Init ==
    /\ disk \in FileLists
    /\ f = 1
    /\ pc = IF disk = <<>> THEN "exit" ELSE "main"
    /\ site = 0
    /\ lines = <<>>
    /\ i = 1
    /\ translated_full = <<>>
    /\ origin = <<>>
    /\ batch = <<>>
    /\ batchIdx = <<>>
    /\ stack = <<>>
    /\ ret = <<>>
    /\ last = NoRequest
    /\ failed = {}
    /\ sent = {}
    /\ done = {}
    /\ accepted = {}
    /\ nreq = 0
    /\ log = <<>>

\* ------------------------------------------------------------------ main
\* for f in yml_files: process_file(f) -- open the next file and read its lines
\* (with no file at all main is at its end at once)
MainOpen ==
    /\ pc = "main"
    /\ f <= Len(disk)
    /\ lines' = disk[f]
    /\ translated_full' = <<>>
    /\ origin' = <<>>
    /\ batch' = <<>>
    /\ batchIdx' = <<>>
    /\ i' = 1
    /\ failed' = {}
    /\ sent' = {}
    /\ done' = {}
    /\ accepted' = {}
    /\ pc' = "loop"
    /\ UNCHANGED <<disk, f, site, stack, ret, last, nreq, log>>

\* ---------------------------------------------------------- process_file
\* translated_full.append(out) for input line i
Emit(out) ==
    /\ translated_full' = Append(translated_full, out)
    /\ origin' = Append(origin, i)

\* translate_batch(batch, file_path.name) is entered from the call at line s
\* (batch is non-empty at each of the three call sites)
Call(s) ==
    /\ pc' = "translate"
    /\ site' = s
    /\ stack' = <<Frame(batch, batchIdx)>>
    /\ UNCHANGED <<disk, f, lines, i, translated_full, origin,
                   batch, batchIdx, ret, last, failed, sent, done, accepted, nreq, log>>

\* a line starting with l_english: is renamed and appended
LoopMarker ==
    /\ pc = "loop"
    /\ i <= Len(lines)
    /\ IsMarkerLine(lines[i])
    /\ Emit(MarkerRename(lines[i]))
    /\ i' = i + 1
    /\ UNCHANGED <<disk, f, pc, site, lines, batch, batchIdx, stack, ret, last, failed, sent, done, accepted, nreq, log>>

\* a translatable line over the single-line ceiling is appended as it is
LoopOversize ==
    /\ pc = "loop"
    /\ i <= Len(lines)
    /\ ~IsMarkerLine(lines[i])
    /\ Translatable(lines[i])
    /\ OverCeiling(lines[i])
    /\ Emit(lines[i])
    /\ i' = i + 1
    /\ UNCHANGED <<disk, f, pc, site, lines, batch, batchIdx, stack, ret, last, failed, sent, done, accepted, nreq, log>>

\* faulty variant: at the threshold the pending batch is appended as it is
LoopFlushFull_Drop ==
    /\ pc = "loop"
    /\ i <= Len(lines)
    /\ ~IsMarkerLine(lines[i])
    /\ Translatable(lines[i])
    /\ ~OverCeiling(lines[i])
    /\ BatchFull(batch, lines[i])
    /\ translated_full' = translated_full \o batch
    /\ origin' = origin \o batchIdx
    /\ batch' = <<lines[i]>>
    /\ batchIdx' = <<i>>
    /\ i' = i + 1
    /\ UNCHANGED <<disk, f, pc, site, lines, stack, ret, last, failed, sent, done,
                   accepted, nreq, log>>

\* the line would take the batch over the threshold: translate the batch first
LoopFlushFull ==
    /\ pc = "loop"
    /\ i <= Len(lines)
    /\ ~IsMarkerLine(lines[i])
    /\ Translatable(lines[i])
    /\ ~OverCeiling(lines[i])
    /\ BatchFull(batch, lines[i])
    /\ Call(214)

\* batch.append(line)
LoopAppend ==
    /\ pc = "loop"
    /\ i <= Len(lines)
    /\ ~IsMarkerLine(lines[i])
    /\ Translatable(lines[i])
    /\ ~OverCeiling(lines[i])
    /\ ~BatchFull(batch, lines[i])
    /\ batch' = Append(batch, lines[i])
    /\ batchIdx' = Append(batchIdx, i)
    /\ i' = i + 1
    /\ UNCHANGED <<disk, f, pc, site, lines, translated_full, origin,
                   stack, ret, last, failed, sent, done, accepted, nreq, log>>

\* a line that is not translatable, with a batch pending: translate the batch first
LoopFlushOther ==
    /\ pc = "loop"
    /\ i <= Len(lines)
    /\ ~IsMarkerLine(lines[i])
    /\ ~Translatable(lines[i])
    /\ batch # <<>>
    /\ Call(220)

\* a line that is not translatable, no batch pending
LoopPassthrough ==
    /\ pc = "loop"
    /\ i <= Len(lines)
    /\ ~IsMarkerLine(lines[i])
    /\ ~Translatable(lines[i])
    /\ batch = <<>>
    /\ Emit(lines[i])
    /\ i' = i + 1
    /\ UNCHANGED <<disk, f, pc, site, lines, batch, batchIdx, stack, ret, last, failed, sent, done, accepted, nreq, log>>

\* end of the file with a batch pending
EndFlush ==
    /\ pc = "loop"
    /\ i > Len(lines)
    /\ batch # <<>>
    /\ Call(225)

\* f.writelines(translated_full) over the same path; back to main's loop,
\* which ends after the last file
Write(out, org) ==
    /\ translated_full' = out
    /\ origin' = org
    /\ disk' = [disk EXCEPT ![f] = out]
    /\ f' = f + 1
    /\ pc' = IF f < Len(disk) THEN "main" ELSE "exit"

\* end of the file, nothing pending
WriteFile ==
    /\ pc = "loop"
    /\ i > Len(lines)
    /\ batch = <<>>
    /\ Write(translated_full, origin)
    /\ UNCHANGED <<site, lines, i, batch, batchIdx, stack, ret, last, failed, sent, done, accepted, nreq, log>>

\* ------------------------------------------------------- translate_batch
\* The request of the innermost call is answered by o and handled to the
\* next request or to the return of the outermost call.
Post ==
    /\ pc = "translate"
    /\ LET top == stack[Len(stack)]
           below == SubSeq(stack, 1, Len(stack) - 1)
           m == Mid(top.batch)
       IN  \E kind \in OutcomeKinds : \E o \in {Outcome(top.batch, kind)} :
             \E v \in {Handle(top.batch, o)} : \E u \in {Unwind(below, v.value)} :
                 /\ last' = [idx |-> top.idx, batch |-> top.batch, outcome |-> o]
                 /\ failed' = IF o.kind = "response" THEN failed
                              ELSE failed \cup {top.idx[k] : k \in 1..Len(top.idx)}
                 /\ sent' = sent \cup {top.idx[k] : k \in 1..Len(top.idx)}
                 /\ nreq' = nreq + 1
                 /\ accepted' = IF Passes(top.batch, o)
                                THEN accepted \cup {top.idx[k] : k \in 1..Len(top.idx)}
                                ELSE accepted
                 /\ done' = IF v.act = "return"
                            THEN done \cup {top.idx[k] : k \in 1..Len(top.idx)}
                            ELSE done
                 /\ log' = IF v.logged THEN log_error(log, top.batch, v.raw, f) ELSE log
                 /\ CASE v.act = "raise" ->
                           /\ pc' = "crashed"
                           /\ UNCHANGED <<stack, ret>>
                      [] v.act = "split" ->
                           /\ stack' = Append(below, [top EXCEPT !.phase = "first"])
                                        \o <<Frame(SubSeq(top.batch, 1, m), SubSeq(top.idx, 1, m))>>
                           /\ UNCHANGED <<pc, ret>>
                      [] v.act = "return" ->
                           /\ stack' = u.stack
                           /\ ret' = u.ret
                           /\ pc' = IF u.returned THEN "returned" ELSE "translate"
    /\ UNCHANGED <<disk, f, site, lines, i, translated_full, origin, batch, batchIdx>>

\* faulty variant: the returned lines replace what was there
Extended_Overwrite == ret

\* translated_full.extend(<returned lines>), the k-th returned line standing
\* for the k-th line of the batch
Extended == translated_full \o ret

ExtendedOrigin ==
    origin \o [k \in 1..Len(ret) |-> IF k <= Len(batchIdx) THEN batchIdx[k] ELSE 0]

\* back at line 214: extend, batch = [], batch.append(line)
Return214 ==
    /\ pc = "returned"
    /\ site = 214
    /\ translated_full' = Extended
    /\ origin' = ExtendedOrigin
    /\ batch' = <<lines[i]>>
    /\ batchIdx' = <<i>>
    /\ i' = i + 1
    /\ pc' = "loop"
    /\ last' = NoRequest
    /\ nreq' = 0
    /\ UNCHANGED <<disk, f, site, lines, stack, ret, failed, sent, done, accepted, log>>

\* back at line 220: extend, batch = [], translated_full.append(line)
Return220 ==
    /\ pc = "returned"
    /\ site = 220
    /\ translated_full' = Append(Extended, lines[i])
    /\ origin' = Append(ExtendedOrigin, i)
    /\ batch' = <<>>
    /\ batchIdx' = <<>>
    /\ i' = i + 1
    /\ pc' = "loop"
    /\ last' = NoRequest
    /\ nreq' = 0
    /\ UNCHANGED <<disk, f, site, lines, stack, ret, failed, sent, done, accepted, log>>

\* back at line 225: extend, then write the file
Return225 ==
    /\ pc = "returned"
    /\ site = 225
    /\ Write(Extended, ExtendedOrigin)
    /\ last' = NoRequest
    /\ nreq' = 0
    /\ UNCHANGED <<site, lines, i, batch, batchIdx, stack, ret, failed, sent, done, accepted, log>>

Next ==
    \/ MainOpen
    \/ LoopMarker
    \/ LoopOversize
    \/ LoopFlushFull
    \/ LoopAppend
    \/ LoopFlushOther
    \/ LoopPassthrough
    \/ EndFlush
    \/ WriteFile
    \/ Post
    \/ Return214
    \/ Return220
    \/ Return225

Spec == Init /\ [][Next]_vars

\* the script runs to its end: a single thread that is never suspended for good
LiveSpec == Spec /\ WF_vars(Next)

TypeOK ==
    /\ pc \in {"main", "loop", "translate", "returned", "exit", "crashed"}
    /\ site \in {0, 214, 220, 225}
    /\ f \in 1..(Len(disk) + 1)
    /\ Len(origin) = Len(translated_full)

\* ---------------------------------------------------------------- claims
\* process_file has written file f-1: lines is what it read, translated_full
\* what it wrote
Written == pc \in {"main", "exit"} /\ f > 1

\* the outermost call of translate_batch has just returned ret for batch
Returned == pc = "returned"

\* a request is being sent: the batch of the innermost call
Sending == pc = "translate"

Top == stack[Len(stack)]

HasHangul(l) == \E k \in 1..Len(l) : l[k] >= HangulFirst /\ l[k] <= HangulLast

\* input line j was written exactly once, as out
WrittenAs(j, out) ==
    /\ Cardinality({p \in 1..Len(origin) : origin[p] = j}) = 1
    /\ \E p \in 1..Len(origin) : origin[p] = j /\ translated_full[p] = out

TagBag(ls) == findall_tags(Join(ls))

\* C1: document order is preserved: at every moment the j-th line of the
\* output stands for the j-th line of the input, because a pending batch is
\* flushed before any line is appended past it.
C1_DocumentOrder == \A j \in 1..Len(translated_full) : origin[j] = j

\* C2: translate_batch returns exactly as many lines as its batch has, for
\* every sequence of endpoint outcomes; so does every first half that a
\* bisected call is holding.
C2_SameLength ==
    /\ Returned => Len(ret) = Len(batch)
    /\ \A k \in 1..Len(stack) :
           stack[k].phase = "second" => Len(stack[k].left) = Mid(stack[k].batch)

\* a batch of three or more lines was bisected and came back partly translated
C2_Witness ==
    /\ Returned
    /\ Len(batch) >= 3
    /\ Len(last.batch) < Len(batch)
    /\ ret # batch

\* C3 as stated: the icon tags of the returned lines are, as a multiset,
\* those of the input batch.
C3_TagsEqual == Returned => TagBag(ret) = TagBag(batch)

\* C3 amended: no icon tag of the input is lost or altered (the input's
\* multiset is contained in the output's), and the two are equal when every
\* line of the batch carries a tag; an answer to a tag-free batch is
\* accepted whatever tags it carries.
C3_TagsKept ==
    Returned =>
        /\ TagBag(batch) \sqsubseteq TagBag(ret)
        /\ (\A k \in 1..Len(batch) : DOMAIN findall_tags(batch[k]) # {})
               => TagBag(ret) = TagBag(batch)

\* a tagged batch of two or more lines came back translated
C3_Witness ==
    /\ Returned
    /\ Len(batch) >= 2
    /\ DOMAIN TagBag(batch) # {}
    /\ ret # batch

\* C4 as stated: every batch process_file submits has at most
\* max_batch_chars characters.
C4_WithinThreshold == Sending => SumLen(stack[1].batch) <= max_batch_chars

\* C4 amended: a submitted batch has at most max_batch_chars characters, or
\* it is a single line of at most max_single_line characters.
C4_BatchBounded ==
    Sending =>
        \/ SumLen(stack[1].batch) <= max_batch_chars
        \/ Len(stack[1].batch) = 1 /\ Len(stack[1].batch[1]) <= max_single_line

\* a single line over the threshold is submitted as a batch of its own
C4_Witness ==
    /\ Sending
    /\ Len(stack[1].batch) = 1
    /\ SumLen(stack[1].batch) > max_batch_chars

\* the answer to request r has a number of non-blank lines other than the batch's
CountDiffers(r) ==
    Len(TranslatedLines(CleanOutput(strip(r.outcome.content)))) # Len(r.batch)

\* the answer to request r got as far as the line-count check
ReachesCountCheck(r) ==
    /\ ~TooShort(strip(r.outcome.content))
    /\ check_special_tags(Join(r.batch), CleanOutput(strip(r.outcome.content)))

LogRecord(r) == [file |-> f, batch |-> r.batch, raw |-> strip(r.outcome.content)]

\* C5 as stated: every answer whose number of non-blank lines differs from
\* the batch's appends one record (file, batch, raw answer) to the log.
C5_EveryMismatchLogged ==
    [][(Sending /\ last'.outcome.kind = "response" /\ CountDiffers(last'))
          => log' = Append(log, LogRecord(last'))]_vars

\* C5 amended: every answer that is not too short, passes the tag check and
\* has a number of non-blank lines other than the batch's appends one record
\* (file, batch, raw answer) to the log, at every level of the recursion.
C5_CheckedMismatchLogged ==
    [][(Sending /\ last'.outcome.kind = "response" /\ ReachesCountCheck(last')
                /\ CountDiffers(last'))
          => log' = Append(log, LogRecord(last'))]_vars

\* the answer to a bisected half had the wrong number of lines and is on the log
C5_Witness ==
    /\ log # <<>>
    /\ last.outcome.kind = "response"
    /\ ReachesCountCheck(last)
    /\ CountDiffers(last)
    /\ log[Len(log)].batch = last.batch
    /\ pc \in {"translate", "returned"}
    /\ Len(last.batch) < Len(batch)

\* C6: lines whose request timed out or raised are returned as they were
\* and are in no later request, whatever the size of the batch.
C6_FailureIsFinal ==
    /\ Sending => \A k \in 1..Len(Top.idx) : Top.idx[k] \notin failed
    /\ Returned =>
           \A k \in 1..Len(batch) :
               batchIdx[k] \in failed => k <= Len(ret) /\ ret[k] = batch[k]

\* the request for a batch of two or more lines failed and the batch came back
C6_Witness ==
    /\ Returned
    /\ last.outcome.kind \in {"timeout", "exception"}
    /\ Len(last.batch) >= 2
    /\ ret = batch

\* C7: whatever the endpoint does, every discovered file is written and
\* main comes to its end.
C7_RunsToEnd == <>(pc = "exit" /\ f = Len(disk) + 1)

\* main is at its end with two files written, after a request of the last
\* file failed in transport and a mismatching answer in the first file
C7_Witness ==
    /\ pc = "exit"
    /\ Len(disk) >= 2
    /\ f = Len(disk) + 1
    /\ failed # {}
    /\ log # <<>>
    /\ log[1].file = 1

\* C8: every returned line has the leading whitespace of the batch line at
\* the same position, whatever the answer's indentation was.
C8_IndentKept ==
    Returned => \A k \in 1..Len(ret) : k <= Len(batch) => Indent(ret[k]) = Indent(batch[k])

\* an answer indented otherwise than the batch was accepted
C8_Witness ==
    /\ Returned
    /\ last.outcome.content = RespGood(last.batch)
    /\ ret[Len(ret)] # batch[Len(batch)]
    /\ Indent(lstrip(last.outcome.content)) # Indent(batch[1])
    /\ Indent(batch[1]) # <<>>

\* no line with Hangul is in a batch that is sent
NoHangulSent ==
    Sending => \A k \in 1..Len(stack) : \A n \in 1..Len(stack[k].batch) :
                   ~HasHangul(stack[k].batch[n])

C10_CeilingKept ==
    /\ Sending => \A k \in 1..Len(stack) : \A n \in 1..Len(stack[k].batch) :
                      Len(stack[k].batch[n]) <= max_single_line
    /\ \A n \in 1..Len(batch) : Len(batch[n]) <= max_single_line
    /\ Written =>
           \A j \in 1..Len(lines) :
               (~IsMarkerLine(lines[j]) /\ Translatable(lines[j])
                   /\ Len(lines[j]) > max_single_line) => WrittenAs(j, lines[j])

\* a file with a line over the ceiling and a translated line was written
C10_Witness ==
    /\ Written
    /\ \E j \in 1..Len(lines) : Translatable(lines[j]) /\ Len(lines[j]) > max_single_line
    /\ \E j \in 1..Len(translated_full) : ~HasHangul(lines[j]) /\ HasHangul(translated_full[j])

\* a line without a quote character or without a colon, or a comment
Structural(l) ==
    \/ \A k \in 1..Len(l) : l[k] # QUOTE
    \/ \A k \in 1..Len(l) : l[k] # COLON
    \/ (LStripIdx(l) <= Len(l) /\ l[LStripIdx(l)] = HASH)

\* a line that starts, after leading whitespace, with l_english:
StartsWithMarker(l) ==
    /\ LStripIdx(l) + Len(SourceMarker) - 1 <= Len(l)
    /\ SubSeq(l, LStripIdx(l), LStripIdx(l) + Len(SourceMarker) - 1) = SourceMarker

\* C11: a line that lacks a quote or a colon, or is a comment, and is not a
\* marker line is in no batch, pending or sent, and is written once, exactly
\* as it was read.
C11_PassThrough ==
    /\ \A n \in 1..Len(batch) : ~Structural(batch[n])
    /\ \A k \in 1..Len(stack) : \A n \in 1..Len(stack[k].batch) :
           ~Structural(stack[k].batch[n])
    /\ Written =>
           \A j \in 1..Len(lines) :
               (Structural(lines[j]) /\ ~StartsWithMarker(lines[j]))
                   => WrittenAs(j, lines[j])

\* a file was written in which a line without a quote follows a line that
\* was translated
C11_Witness ==
    /\ Written
    /\ \E j \in 2..Len(lines) :
           /\ \A k \in 1..Len(lines[j]) : lines[j][k] # QUOTE
           /\ ~HasHangul(lines[j - 1])
           /\ HasHangul(translated_full[j - 1])
           /\ translated_full[j] = lines[j]

\* the line with the l_english: after its leading whitespace replaced by l_korean:
RenamePrefix(l) ==
    SubSeq(l, 1, LStripIdx(l) - 1) \o TargetMarker
        \o SubSeq(l, LStripIdx(l) + Len(SourceMarker), Len(l))

\* a marker line is in no batch, pending or sent
MarkerNotBatched ==
    /\ \A n \in 1..Len(batch) : ~StartsWithMarker(batch[n])
    /\ \A k \in 1..Len(stack) : \A n \in 1..Len(stack[k].batch) :
           ~StartsWithMarker(stack[k].batch[n])

\* the loop has just handled a marker line: it was appended right away, and
\* a batch that was pending is still pending and was not sent
MarkerNoRequest ==
    (pc = "loop" /\ i > 1 /\ StartsWithMarker(lines[i - 1])) =>
        /\ origin # <<>>
        /\ origin[Len(origin)] = i - 1
        /\ \A n \in 1..Len(batchIdx) : batchIdx[n] \notin sent

\* C12 as stated: a marker line is written with its marker replaced by
\* l_korean: (and is otherwise as it was read), is in no batch, and handling
\* it sends no request, even when a batch is pending.
C12_MarkerPrefixRenamed ==
    /\ MarkerNotBatched
    /\ MarkerNoRequest
    /\ Written =>
           \A j \in 1..Len(lines) :
               StartsWithMarker(lines[j]) => WrittenAs(j, RenamePrefix(lines[j]))

\* C12 amended: a marker line is written with every occurrence of l_english:
\* in it replaced by l_korean:, is in no batch, and handling it sends no
\* request, even when a batch is pending.
C12_MarkerRenamed ==
    /\ MarkerNotBatched
    /\ MarkerNoRequest
    /\ Written =>
           \A j \in 1..Len(lines) :
               StartsWithMarker(lines[j])
                   => WrittenAs(j, Replace(lines[j], SourceMarker, TargetMarker))

\* a marker line with l_english: twice was handled while a batch was pending
C12_Witness ==
    /\ pc = "loop"
    /\ i > 1
    /\ StartsWithMarker(lines[i - 1])
    /\ Cardinality(Occurs(lines[i - 1], SourceMarker)) = 2
    /\ batch # <<>>
    /\ Occurs(translated_full[Len(translated_full)], SourceMarker) = {}
    /\ Cardinality(Occurs(translated_full[Len(translated_full)], TargetMarker)) = 2

\* a is the end of s
IsSuffix(a, s) == Len(s) >= Len(a) /\ SubSeq(s, Len(s) - Len(a) + 1, Len(s)) = a

Positions(ix) == {ix[k] : k \in 1..Len(ix)}

\* In this step the innermost call returns its own batch: to process_file,
\* or to the caller that was waiting for its first half, which goes on with
\* other lines.
HandsBackBatch ==
    \/ /\ pc' = "returned"
       /\ IsSuffix(Top.batch, ret')
    \/ /\ pc' = "translate"
       /\ Len(stack') >= 2
       /\ Len(stack') <= Len(stack)
       /\ stack'[Len(stack') - 1].phase = "second"
       /\ IsSuffix(Top.batch, stack'[Len(stack') - 1].left)
       /\ Positions(stack'[Len(stack')].idx) \cap Positions(Top.idx) = {}

\* no request is for a line whose call has returned
NoRequestAgain == Sending => Positions(Top.idx) \cap done = {}

\* the answer to request r is a response shorter than ten characters
ShortAnswer(r) ==
    r.outcome.kind = "response" /\ Len(strip(r.outcome.content)) < MinResponseLen

\* C13: an answer that is empty or shorter than ten characters after
\* stripping makes translate_batch return the batch as it was, for a batch
\* of any size: no bisection, no record on the log, and no later request
\* for these lines.
C13_ShortAnswerKept ==
    [][(Sending /\ ShortAnswer(last'))
          => (HandsBackBatch /\ log' = log /\ NoRequestAgain')]_vars

\* the first half of a bisected batch, of two lines, got a short answer and
\* was handed back as it was
C13_Witness ==
    /\ Sending
    /\ ShortAnswer(last)
    /\ Len(last.batch) >= 2
    /\ Len(stack) >= 2
    /\ stack[Len(stack) - 1].phase = "second"
    /\ stack[Len(stack) - 1].left = last.batch

\* the answer to request r was long enough and failed the tag check or the
\* line-count check
Rejected(r) ==
    /\ r.outcome.kind = "response"
    /\ Len(strip(r.outcome.content)) >= MinResponseLen
    /\ ~Passes(r.batch, r.outcome)

\* C15: when the answer for a batch of one line fails the tag check or the
\* line-count check, the line is returned as it was and is in no later
\* request.
C15_SingleLineKept ==
    [][(Sending /\ Len(Top.batch) = 1 /\ Rejected(last'))
          => (HandsBackBatch /\ NoRequestAgain')]_vars

\* a batch was bisected down to its last line, whose answer was rejected
C15_Witness ==
    /\ Returned
    /\ Len(batch) >= 2
    /\ Len(last.batch) = 1
    /\ Rejected(last)
    /\ ret[Len(ret)] = batch[Len(batch)]

\* the first floor(n/2) elements of a sequence, and the rest
FirstHalf(b) == SubSeq(b, 1, Len(b) \div 2)

SecondHalf(b) == SubSeq(b, (Len(b) \div 2) + 1, Len(b))

\* C16: a batch of n > 1 lines that failed validation is split into its
\* first floor(n/2) lines and the rest; the call for the second half is
\* made when the first half has been resolved and returned; and the result
\* is in the order of the batch: a returned line differs from the batch line
\* at its position exactly when an answer for that position was accepted.
C16_Bisection ==
    /\ \A k \in 1..(Len(stack) - 1) :
           LET p == stack[k]
               c == stack[k + 1]
           IN  /\ Len(p.batch) > 1
               /\ p.phase \in {"first", "second"}
               /\ p.phase = "first" =>
                      /\ c.batch = FirstHalf(p.batch)
                      /\ c.idx = FirstHalf(p.idx)
               /\ p.phase = "second" =>
                      /\ c.batch = SecondHalf(p.batch)
                      /\ c.idx = SecondHalf(p.idx)
                      /\ Positions(FirstHalf(p.idx)) \subseteq done
                      /\ Len(p.left) = Len(FirstHalf(p.batch))
                      /\ \A n \in 1..Len(p.left) :
                             (p.left[n] # p.batch[n]) <=> (p.idx[n] \in accepted)
    /\ Returned =>
           /\ Len(ret) = Len(batch)
           /\ \A n \in 1..Len(batch) :
                  (ret[n] # batch[n]) <=> (batchIdx[n] \in accepted)

\* a batch of four lines was split into two of two; the first half came
\* back translated and the second half is being sent
C16_Witness ==
    /\ Sending
    /\ Len(stack) = 2
    /\ Len(stack[1].batch) = 4
    /\ stack[1].phase = "second"
    /\ Len(Top.batch) = 2
    /\ stack[1].left # FirstHalf(stack[1].batch)

\* a line the loop classifies as translatable and within the ceiling
ToTranslate(l) ==
    /\ ~StartsWithMarker(l)
    /\ ~Structural(l)
    /\ ~HasHangul(l)
    /\ Len(l) <= max_single_line

\* C14: when a file is written, every line of it that was classified as
\* translatable and is within the single-line ceiling has been in a request:
\* no batch stays pending at the end of the file, none is dropped at a
\* threshold flush.
C14_AllSent ==
    Written => \A j \in 1..Len(lines) : ToTranslate(lines[j]) => j \in sent

\* a file was written after a flush at the threshold and a flush at its end
C14_Witness ==
    /\ Written
    /\ \E j \in 2..Len(lines) :
           /\ ToTranslate(lines[j - 1])
           /\ ToTranslate(lines[j])
           /\ Len(lines[j - 1]) + Len(lines[j]) > max_batch_chars
           /\ {j - 1, j} \subseteq sent

\* nested splits below the call process_file made
Depth == Len(stack) - 1

\* C17 as stated: the depth of the bisection of a batch of n lines is at
\* most log2(n): 2^depth <= n.
C17_DepthLog2 == Sending => 2 ^ Depth <= Len(stack[1].batch)

\* C17 amended: the depth of the bisection of a batch of n lines is at most
\* log2(n) rounded up: 2^depth < 2n.
C17_DepthCeilLog2 == Sending => 2 ^ Depth < 2 * Len(stack[1].batch)

\* a batch of three lines two splits deep
C17_Witness ==
    /\ Sending
    /\ Len(stack[1].batch) = 3
    /\ Depth = 2

\* C18: the file is written with as many lines as were read, one for every
\* line read, whatever the endpoint answered.
C18_SameLineCount ==
    Written =>
        /\ Len(translated_full) = Len(lines)
        /\ Len(disk[f - 1]) = Len(lines)
        /\ \A j \in 1..Len(lines) : Cardinality({p \in 1..Len(origin) : origin[p] = j}) = 1

\* a file of three or more lines was written after an answer with the wrong
\* number of lines, with a line translated
C18_Witness ==
    /\ Written
    /\ Len(lines) >= 3
    /\ log # <<>>
    /\ log[Len(log)].file = f - 1
    /\ \E j \in 1..Len(lines) : translated_full[j] # lines[j]

\* the requests of the call in progress, the one being sent included, are
\* at most 2n - 1, and every call in progress is on a non-empty batch
\* smaller than its caller's
CallBounded ==
    /\ Sending => nreq + 1 <= 2 * Len(batch) - 1
    /\ Returned => nreq <= 2 * Len(batch) - 1
    /\ \A k \in 1..Len(stack) :
           /\ stack[k].batch # <<>>
           /\ k > 1 => Len(stack[k].batch) < Len(stack[k - 1].batch)

\* C19: a call of translate_batch by process_file on n lines comes to its
\* end after at most 2n - 1 requests, whatever the endpoint answers (it is
\* not sending requests for ever, and no exception escapes it); every
\* recursive call is on a non-empty batch smaller than its caller's.
C19_ReturnsWithin == [](CallBounded /\ pc # "crashed") /\ []<>(~Sending)

\* a call on four lines returned after seven requests
C19_Witness ==
    /\ Returned
    /\ Len(batch) = 4
    /\ nreq = 7

\* C20: a returned line that differs from the batch line at its position is
\* at a position for which an answer passed the length, tag and line-count
\* checks; the lines of a request that failed or whose answer was rejected
\* come back as they were.
C20_OnlyAccepted ==
    /\ \A k \in 1..Len(stack) :
           stack[k].phase = "second" =>
               \A n \in 1..Len(stack[k].left) :
                   /\ n <= Len(stack[k].batch)
                   /\ stack[k].left[n] # stack[k].batch[n] => stack[k].idx[n] \in accepted
    /\ Returned =>
           /\ \A n \in 1..Len(ret) :
                  /\ n <= Len(batch)
                  /\ ret[n] # batch[n] => batchIdx[n] \in accepted
           /\ ~Passes(last.batch, last.outcome) => IsSuffix(last.batch, ret)

\* a bisected batch came back with a translated line and with the lines of
\* a rejected answer as they were
C20_Witness ==
    /\ Returned
    /\ Rejected(last)
    /\ IsSuffix(last.batch, ret)
    /\ ret[1] # batch[1]
    /\ Positions(last.idx) \cap accepted = {}

====
